---------------------------- MODULE Spec2Model ----------------------------
(* A model of csv_extractor.py: the date normalizer (format_datestr), the   *)
(* format normalizer (update_format), the row classifier and writer loop    *)
(* (append_contents) and the driver (main) with its two modes.              *)
(*                                                                          *)
(* Text that the program takes apart (a date token, a file name) is a       *)
(* sequence of one-character strings, so that split, zfill and join do what *)
(* the Python methods do.  Text that is only compared for equality (the     *)
(* fields of an upstream row) is a TLA+ string.  Python positions are       *)
(* 0-based and may be negative; PyGet models the subscript.                 *)
EXTENDS Integers, Sequences, FiniteSets, TLC

-----------------------------------------------------------------------------
(* Python values and text helpers                                           *)

\* Python's None, as update_format leaves it in the fields it does not fill.
None == "<None>"

\* The outcome of a call: the exception it raised ("" when it returned) and
\* the value it returned.
Return(v) == [exc |-> "", val |-> v]
Raise(e) == [exc |-> e, val |-> <<>>]

\* seq[i] of a Python list or str: 0-based, a negative i counts from the end,
\* anything outside -len..len-1 raises IndexError.
PyInRange(seq, i) == i >= 0 - Len(seq) /\ i < Len(seq)
PyGet(seq, i) == IF i >= 0 THEN seq[i + 1] ELSE seq[Len(seq) + i + 1]

\* c in s, for a one-character c.
Contains(s, c) == \E k \in 1..Len(s) : s[k] = c

\* s.split(sep) for a one-character separator: the pieces between the
\* separators, empty pieces included.
RECURSIVE SplitFrom(_, _, _, _)
SplitFrom(s, sep, k, cur) ==
    IF k > Len(s) THEN <<cur>>
    ELSE IF s[k] = sep THEN <<cur>> \o SplitFrom(s, sep, k + 1, <<>>)
    ELSE SplitFrom(s, sep, k + 1, Append(cur, s[k]))
Split(s, sep) == SplitFrom(s, sep, 1, <<>>)

\* sep.join(parts)
RECURSIVE Join(_, _)
Join(parts, sep) ==
    IF Len(parts) = 0 THEN <<>>
    ELSE IF Len(parts) = 1 THEN parts[1]
    ELSE parts[1] \o <<sep>> \o Join(Tail(parts), sep)

\* s.zfill(width): zeros on the left up to the width, longer text unchanged.
RECURSIVE zfill(_, _)
zfill(s, width) == IF Len(s) >= width THEN s ELSE zfill(<<"0">> \o s, width)


-----------------------------------------------------------------------------
(* Module-level tables of csv_extractor.py                                  *)

\* The header row written to cases.csv.  Its first name is taken apart by
\* format_datestr when an update run finds it as the last line of the file.
header ==
    << <<"D", "a", "t", "e">>, "FIPS", "Admin2", "Province_State",
       "Country_Region", "Last_Update", "Lat", "Long_", "Confirmed", "Deaths",
       "Recovered", "Active", "Combined_Key", "Incidence_Rate",
       "Case-Fatality_Ratio" >>

\* Index of the Country_Region column in each of the 6-8-12-14 column formats.
country_index == (6 :> 1) @@ (8 :> 1) @@ (12 :> 3) @@ (14 :> 3)

\* target = {'US': {'Arizona': ['Pima']}, 'Singapore': {}}; the empty dict is
\* the function with the empty domain.
target == [US |-> [Arizona |-> <<"Pima">>], Singapore |-> <<>>]

-----------------------------------------------------------------------------
(* format_datestr                                                           *)

\* A token without '/' and '-' stays a str: datestr[0] raises IndexError on
\* the empty str, and the assignment to datestr[0] raises TypeError otherwise.
\* A token with a separator is split into at least two pieces, so the two
\* zfill lines never fail, whatever the number of pieces.
format_datestr(datestr) ==
    IF Contains(datestr, "/") \/ Contains(datestr, "-")
    THEN LET parts == IF Contains(datestr, "/") THEN Split(datestr, "/")
                      ELSE Split(datestr, "-")
             padded == [parts EXCEPT ![1] = zfill(@, 2), ![2] = zfill(@, 2)]
         IN  Return(Join(padded, "-"))
    ELSE IF Len(datestr) = 0 THEN Raise("IndexError")
    ELSE Raise("TypeError")

-----------------------------------------------------------------------------
(* update_format                                                            *)

\* The row of fifteen Nones with the fields of a 6- or 8-column row put at
\* their places (0-based place p is element p + 1).
OldLayout(row, cols, datestr) ==
    [p \in 1..15 |->
        CASE p = 1 -> datestr
          [] p = 3 -> PyGet(row, 0)
          [] p = 5 -> PyGet(row, 1)
          [] p = 6 -> PyGet(row, 2)
          [] p = 9 -> PyGet(row, 3)
          [] p = 10 -> PyGet(row, 4)
          [] p = 11 -> PyGet(row, 5)
          [] p = 7 /\ cols = 8 -> PyGet(row, 6)
          [] p = 8 /\ cols = 8 -> PyGet(row, 7)
          [] OTHER -> None]

\* cols is the number of columns of the file's header line, row any row of
\* the file.  Nothing compares cols with the four known layouts: a row[k]
\* past the end of the row is the only failure.
update_format(row, cols, datestr) ==
    IF cols >= 12 THEN Return(<<datestr>> \o row)
    ELSE IF ~PyInRange(row, 5) THEN Raise("IndexError")
    ELSE IF cols = 8 /\ ~PyInRange(row, 7) THEN Raise("IndexError")
    ELSE Return(OldLayout(row, cols, datestr))

-----------------------------------------------------------------------------
(* append_contents: the body of the loop over the rows of one file          *)

\* x in a list
InList(x, list) == \E k \in 1..Len(list) : list[k] = x

\* Index of the country column of a row, by the row's own length.
CountryIndex(row) == country_index[Len(row)]

\* isTarget as lines 106-122 compute it, for a row whose length is a key of
\* country_index.
isTarget(row) ==
    LET index == CountryIndex(row)
        country == PyGet(row, index)
    IN  IF country \in DOMAIN target
        THEN IF Cardinality(DOMAIN target[country]) = 0
             THEN TRUE
             ELSE LET province_state == PyGet(row, index - 1)
                  IN  IF province_state \in DOMAIN target[country]
                      THEN IF country = "US"
                           THEN InList(PyGet(row, index - 2),
                                       target[country][province_state])
                           ELSE TRUE
                      ELSE FALSE
        ELSE FALSE

\* The subscripts lines 108-118 apply to the row, as written in the source
\* (before Python wraps a negative one).
Subscripts(row) ==
    LET index == CountryIndex(row)
        country == PyGet(row, index)
    IN  {index}
        \cup (IF country \in DOMAIN target
                 /\ Cardinality(DOMAIN target[country]) # 0
              THEN {index - 1} ELSE {})
        \cup (IF country \in DOMAIN target
                 /\ Cardinality(DOMAIN target[country]) # 0
                 /\ PyGet(row, index - 1) \in DOMAIN target[country]
                 /\ country = "US"
              THEN {index - 2} ELSE {})

\* csv.writer.writerow: None is written as the empty field.  Element 1 is
\* the date text in every row the program writes.
writerow(writer, row) ==
    Append(writer, [p \in 1..Len(row) |->
                      IF p > 1 /\ row[p] = None THEN "" ELSE row[p]])

\* One pass of the loop of lines 101-126 over one row: the writer after it
\* and the exception that ended it ("" when the loop goes on).
ProcessRow(writer, row, cols, datestr) ==
    IF Len(row) = 0 THEN Return(writer)
    ELSE IF Len(row) \notin DOMAIN country_index
    THEN [exc |-> "KeyError", val |-> writer]
    ELSE IF ~isTarget(row) THEN Return(writer)
    ELSE LET new_row == update_format(row, cols, datestr)
         IN  IF new_row.exc # "" THEN [exc |-> new_row.exc, val |-> writer]
             ELSE Return(writerow(writer, new_row.val))

\* The loop of lines 101-126 over the rows of one file: it stops at the first
\* exception, with the rows written so far left in the writer.
RECURSIVE ProcessRows(_, _, _, _)
ProcessRows(writer, rows, cols, datestr) ==
    IF Len(rows) = 0 THEN Return(writer)
    ELSE LET r == ProcessRow(writer, Head(rows), cols, datestr)
         IN  IF r.exc # "" THEN r
             ELSE ProcessRows(r.val, Tail(rows), cols, datestr)

\* One pass of the loop of lines 85-126 over one file name: response is the
\* outcome of requests.get followed by csv.reader (the parsed lines, or the
\* exception the transport raised).
AppendOne(writer, fname, response) ==
    IF response.exc # "" THEN [exc |-> response.exc, val |-> writer]
    ELSE LET contents == response.val
             col_names == contents[1]
         IN  IF Len(col_names) > 14
             THEN [exc |-> "SystemExit", val |-> writer]
             ELSE ProcessRows(writer, Tail(contents), Len(col_names),
                              Split(fname, ".")[1])

-----------------------------------------------------------------------------
(* The upstream repository: the daily report files that may exist           *)

Header14 == Tail(header)
Header12 == SubSeq(Header14, 1, 12)
Header6 ==
    <<"Province/State", "Country/Region", "Last Update", "Confirmed",
      "Deaths", "Recovered">>
Header8 == Header6 \o <<"Latitude", "Longitude">>
Header15 == Header14 \o <<"Extra">>

Row6(province, country) == <<province, country, "t", "10", "1", "0">>
Row8(province, country) == Row6(province, country) \o <<"1.3", "103.8">>
Row12(admin2, province, country) ==
    <<"04019", admin2, province, country, "t", "32.1", "-111.8", "10", "1",
      "0", "9", "key">>
Row14(admin2, province, country) ==
    Row12(admin2, province, country) \o <<"ir", "cfr">>

csv == <<"c", "s", "v">>
dotcsv == <<".">> \o csv
Name_12_31_2021 == <<"1", "2", "-", "3", "1", "-", "2", "0", "2", "1">> \o dotcsv
Name_01_01_2022 == <<"0", "1", "-", "0", "1", "-", "2", "0", "2", "2">> \o dotcsv
Name_01_02_2022 == <<"0", "1", "-", "0", "2", "-", "2", "0", "2", "2">> \o dotcsv
Name_02_01_2022 == <<"0", "2", "-", "0", "1", "-", "2", "0", "2", "2">> \o dotcsv
Name_03_01_2022 == <<"0", "3", "-", "0", "1", "-", "2", "0", "2", "2">> \o dotcsv
Name_03_02_2022 == <<"0", "3", "-", "0", "2", "-", "2", "0", "2", "2">> \o dotcsv

\* The files the upstream directory may hold, in the order the listing gives
\* them (by name, so that the oldest report comes last): 8 columns with a
\* target row, 14 columns without one, 14 columns with two, a 14-column file
\* with a 7-field row after a target row, a file with 15 columns, and a
\* 6-column file with a target row.
Upstream ==
    << [name |-> Name_01_01_2022, type |-> "file",
        content |-> <<Header8, Row8("", "Singapore"), Row8("Arizona", "US"),
                      Row8("", "France")>>],
       [name |-> Name_01_02_2022, type |-> "file",
        content |-> <<Header14, Row14("", "", "France"), <<>>,
                      Row14("Maricopa", "Arizona", "US")>>],
       [name |-> Name_02_01_2022, type |-> "file",
        content |-> <<Header14, Row14("Pima", "Arizona", "US"),
                      Row14("", "", "Singapore"),
                      Row14("Pima", "Texas", "US")>>],
       [name |-> Name_03_01_2022, type |-> "file",
        content |-> <<Header14, Row14("", "", "Singapore"),
                      SubSeq(Header14, 1, 7),
                      Row14("Pima", "Arizona", "US")>>],
       [name |-> Name_03_02_2022, type |-> "file",
        content |-> <<Header15, Row14("", "", "Singapore") \o <<"x">> >>],
       [name |-> Name_12_31_2021, type |-> "file",
        content |-> <<Header6, Row6("", "Singapore"), Row6("", "France")>>] >>

\* Entries of the listing that are no report: a text file and a directory.
Others ==
    << [name |-> <<"R", "E", "A", "D", "M", "E", ".", "m", "d">>,
        type |-> "file", content |-> <<>>],
       [name |-> <<"a", "r", "c", "h", "i", "v", "e">>,
        type |-> "dir", content |-> <<>>] >>

FileIds == 1..Len(Upstream)

\* response.json() of the listing request when the files in repo exist.
Listing(repo) ==
    Others \o SelectSeq(Upstream, LAMBDA e : \E f \in repo : Upstream[f] = e)

\* The parsed content of the file called fname.
ContentOf(fname) ==
    Upstream[CHOOSE f \in FileIds : Upstream[f].name = fname].content

-----------------------------------------------------------------------------
(* main: listing, chronological sort, incremental resolution                *)

Digits == <<"0", "1", "2", "3", "4", "5", "6", "7", "8", "9">>
DigitOf(c) == (CHOOSE k \in 1..10 : Digits[k] = c) - 1

\* int(s) of a text of digits
RECURSIVE ToInt(_)
ToInt(s) ==
    IF Len(s) = 0 THEN 0
    ELSE 10 * ToInt(SubSeq(s, 1, Len(s) - 1)) + DigitOf(s[Len(s)])

\* datetime.strptime(text, '%m-%d-%Y'), as a number that orders as the
\* datetime does.
strptime(text) ==
    LET f == Split(text, "-")
    IN  ToInt(f[3]) * 10000 + ToInt(f[1]) * 100 + ToInt(f[2])

\* The sort key of line 161.
DateKey(fname) == strptime(Split(fname, ".")[1])

\* list.sort(key = DateKey): stable, ascending.
RECURSIVE Insert(_, _)
Insert(sorted, x) ==
    IF Len(sorted) = 0 THEN <<x>>
    ELSE IF DateKey(sorted[Len(sorted)]) <= DateKey(x) THEN Append(sorted, x)
    ELSE Append(Insert(SubSeq(sorted, 1, Len(sorted) - 1), x),
                sorted[Len(sorted)])
RECURSIVE SortFrom(_, _)
SortFrom(sorted, rest) ==
    IF Len(rest) = 0 THEN sorted
    ELSE SortFrom(Insert(sorted, Head(rest)), Tail(rest))
\* Faulty variant: the names are left in the order of the listing
SortByDate_unsorted(names) == names
SortByDate(names) == SortFrom(<<>>, names)

\* Lines 157-159: the names of the entries that are files with extension csv.
RECURSIVE CsvNames(_)
CsvNames(directory) ==
    IF Len(directory) = 0 THEN <<>>
    ELSE LET file == Head(directory)
         IN  (IF file.type = "file" /\ Split(file.name, ".")[2] = csv
              THEN <<file.name>> ELSE <<>>) \o CsvNames(Tail(directory))

\* Lines 157-161.
SortedFilenames(directory) == SortByDate(CsvNames(directory))

\* Faulty variant: str.find's convention: -1 without an x
list_index_find(list, x) ==
    IF InList(x, list)
    THEN Return((CHOOSE k \in 1..Len(list) : list[k] = x) - 1)
    ELSE Return(0 - 1)

\* list.index(x): the 0-based position of the first x, ValueError without one.
list_index(list, x) ==
    IF InList(x, list)
    THEN Return((CHOOSE k \in 1..Len(list) :
                    list[k] = x /\ \A j \in 1..(k - 1) : list[j] # x) - 1)
    ELSE Raise("ValueError")

\* Faulty variant: the slice starts one place early
SliceFrom_early(list, start) == SubSeq(list, start, Len(list))

\* list[start:] for a start >= 0
SliceFrom(list, start) == SubSeq(list, start + 1, Len(list))

\* Faulty variant: every listed file is taken as new
Resolve_all(line, filenames) == Return(filenames)

\* Lines 177-179 of the update mode: the file names after the one that the
\* last line of cases.csv names.
Resolve(line, filenames) ==
    LET d == format_datestr(line[1])
    IN  IF d.exc # "" THEN Raise(d.exc)
        ELSE LET i == list_index(filenames, d.val \o dotcsv)
             IN  IF i.exc # "" THEN Raise(i.exc)
                 ELSE Return(SliceFrom(filenames, i.val + 1))

\* open(path, mode) on cases.csv: 'w' truncates or creates the file, 'a' and
\* 'r' leave its rows.
open_file(file, mode) == IF mode = "w" THEN <<>> ELSE file

\* Faulty variant: the update mode opens the file for writing
OpenForUpdate_w(file) == open_file(file, "w")

\* Line 184: the update mode opens cases.csv for appending.
OpenForUpdate(file) == open_file(file, "a")

\* Line 164: the generate mode opens cases.csv for writing.
OpenForGenerate(file) == open_file(file, "w")

-----------------------------------------------------------------------------
(* State                                                                    *)

\* Upstream files may be added or removed between runs at most this often.
MaxChanges == 2
\* The widest row and the largest column count handed to the functions.
MaxCols == 15

VARIABLES
    repo,       \* the ids of the files that exist upstream
    cases,      \* cases.csv: its rows in order, <<>> while the file is absent
    pc,         \* where the running process is: prompt, list, open, append,
                \* or how it ended: done (exit 0), error (non-zero exit)
    choice,     \* the answer to the prompt, "1" or "2"
    filenames,  \* main's list of file names
    pos,        \* number of names the loop of append_contents has passed
    printed,    \* the messages this run has printed
    err,        \* the exception that ended this run, "" without one
    before,     \* history: cases.csv when this run started
    listed,     \* history: the sorted file names of this run's listing
    fetched,    \* history: the names of the files this run has requested
    clean,      \* history: cases.csv was generated and since then no run
                \* failed and upstream only gained files of later dates
    changes,    \* number of upstream changes so far
    call,       \* the function called directly and its arguments
    ret         \* what that call returned or raised

run == <<pc, choice, filenames, pos, printed, err, before, listed, fetched>>
vars == <<repo, cases, run, clean, changes, call, ret>>

NoCall == [fn |-> "", row |-> <<>>, cols |-> 0, datestr |-> <<>>]

Init ==
    /\ repo \in SUBSET FileIds
    /\ cases = <<>>
    /\ pc = "prompt"
    /\ choice = ""
    /\ filenames = <<>>
    /\ pos = 0
    /\ printed = {}
    /\ err = ""
    /\ before = <<>>
    /\ listed = <<>>
    /\ fetched = <<>>
    /\ clean = FALSE
    /\ changes = 0
    /\ call = NoCall
    /\ ret = Return(<<>>)

-----------------------------------------------------------------------------
(* main, step by step                                                       *)

\* The process ends with an uncaught exception or sys.exit(-1).
Fail(e, message) ==
    /\ pc' = "error"
    /\ err' = e
    /\ printed' = printed \cup message
    /\ clean' = FALSE

\* Lines 135-139: the prompt is repeated until the answer is 1 or 2.
Prompt ==
    /\ pc = "prompt"
    /\ \E c \in {"1", "2", "3"} :
        IF c \in {"1", "2"}
        THEN /\ choice' = c
             /\ pc' = "list"
             /\ UNCHANGED printed
        ELSE /\ printed' = printed \cup {"Invalid option. Please enter again:"}
             /\ UNCHANGED <<choice, pc>>
    /\ UNCHANGED <<repo, cases, filenames, pos, err, before, listed, fetched,
                   clean, changes, call, ret>>

\* Lines 141-161: the listing request and the sorted names.  After
\* TooManyRedirects the handler returns and line 155 reads the unbound
\* response.
GetListing ==
    /\ pc = "list"
    /\ \E outcome \in {"ok", "Timeout", "TooManyRedirects", "RequestException"} :
        CASE outcome = "ok" ->
                /\ filenames' = SortedFilenames(Listing(repo))
                /\ listed' = filenames'
                /\ pc' = "open"
                /\ UNCHANGED <<printed, err, clean>>
          [] outcome = "Timeout" ->
                /\ Fail("SystemExit", {"Connection timeout"})
                /\ UNCHANGED <<filenames, listed>>
          [] outcome = "TooManyRedirects" ->
                /\ Fail("UnboundLocalError", {"Bad URL. Check URL and retry"})
                /\ UNCHANGED <<filenames, listed>>
          [] outcome = "RequestException" ->
                /\ Fail("SystemExit", {"An error occured"})
                /\ UNCHANGED <<filenames, listed>>
    /\ UNCHANGED <<repo, cases, choice, pos, before, fetched, changes, call, ret>>

\* Lines 163-167: open for writing truncates the file; the header is written.
OpenNew ==
    /\ pc = "open"
    /\ choice = "1"
    /\ cases' = writerow(OpenForGenerate(cases), header)
    /\ pc' = "append"
    /\ pos' = 0
    /\ clean' = TRUE
    /\ UNCHANGED <<repo, choice, filenames, printed, err, before, listed,
                   fetched, changes, call, ret>>

\* Lines 170-184: read the last line, keep the names after its date.
OpenExisting ==
    /\ pc = "open"
    /\ choice = "2"
    /\ IF Len(cases) = 0
       THEN /\ Fail("FileNotFoundError", {})
            /\ UNCHANGED <<cases, filenames, pos>>
       ELSE LET r == Resolve(cases[Len(cases)], filenames)
            IN  IF r.exc # ""
                THEN /\ Fail(r.exc, {})
                     /\ UNCHANGED <<cases, filenames, pos>>
                ELSE /\ filenames' = r.val
                     /\ pos' = 0
                     /\ err' = ""
                     /\ UNCHANGED clean
                     /\ IF Len(r.val) = 0
                        THEN /\ printed' = printed \cup {"Already up to date",
                                                         "Completed"}
                             /\ pc' = "done"
                             /\ UNCHANGED cases
                        ELSE /\ pc' = "append"
                             /\ cases' = OpenForUpdate(cases)
                             /\ UNCHANGED printed
    /\ UNCHANGED <<repo, choice, before, listed, fetched, changes, call, ret>>

\* One pass of the loop of append_contents: request the next file, write its
\* target rows.  The request may raise; rows written before an exception stay.
AppendContents ==
    /\ pc = "append"
    /\ pos < Len(filenames)
    /\ \E transport \in {"", "Timeout"} :
        LET fname == filenames[pos + 1]
            response == IF transport = "" THEN Return(ContentOf(fname))
                        ELSE Raise(transport)
            r == AppendOne(cases, fname, response)
        IN  /\ cases' = r.val
            /\ fetched' = Append(fetched, fname)
            /\ IF r.exc = ""
               THEN /\ pos' = pos + 1
                    /\ UNCHANGED <<pc, err, printed, clean>>
               ELSE /\ Fail(r.exc,
                            IF r.exc = "SystemExit"
                            THEN {"There are more than 14 columns"} ELSE {})
                    /\ UNCHANGED pos
    /\ UNCHANGED <<repo, choice, filenames, before, listed, changes, call, ret>>

\* Line 192, after the loop has passed every name.
Completed ==
    /\ pc = "append"
    /\ pos = Len(filenames)
    /\ printed' = printed \cup {"Completed"}
    /\ pc' = "done"
    /\ UNCHANGED <<repo, cases, choice, filenames, pos, err, before, listed,
                   fetched, clean, changes, call, ret>>

\* The program is started again.
Start ==
    /\ pc \in {"done", "error"}
    /\ pc' = "prompt"
    /\ choice' = ""
    /\ filenames' = <<>>
    /\ pos' = 0
    /\ printed' = {}
    /\ err' = ""
    /\ before' = cases
    /\ listed' = <<>>
    /\ fetched' = <<>>
    /\ UNCHANGED <<repo, cases, clean, changes, call, ret>>

\* Before a run asks for the listing, upstream publishes a file.
UpstreamAdd ==
    /\ pc = "prompt"
    /\ changes < MaxChanges
    /\ \E f \in FileIds \ repo :
        /\ repo' = repo \cup {f}
        /\ clean' = (clean /\ \A g \in repo :
                        DateKey(Upstream[g].name) < DateKey(Upstream[f].name))
    /\ changes' = changes + 1
    /\ UNCHANGED <<cases, run, call, ret>>

\* Before a run asks for the listing, upstream withdraws a file.
UpstreamRemove ==
    /\ pc = "prompt"
    /\ changes < MaxChanges
    /\ \E f \in repo : repo' = repo \ {f}
    /\ clean' = FALSE
    /\ changes' = changes + 1
    /\ UNCHANGED <<cases, run, call, ret>>

Next ==
    \/ Prompt
    \/ GetListing
    \/ OpenNew
    \/ OpenExisting
    \/ AppendContents
    \/ Completed
    \/ Start
    \/ UpstreamAdd
    \/ UpstreamRemove

Spec == Init /\ [][Next]_vars

-----------------------------------------------------------------------------
(* The functions called directly, once each behaviour, on inputs drawn from  *)
(* bounded sets                                                             *)

Months == {<<"3">>, <<"0", "3">>, <<"1", "2">>}
Days == {<<"4">>, <<"0", "4">>, <<"3", "1">>}
Years == {<<"2", "0", "2", "2">>}

\* Date tokens: month, day and year with either separator, month and year
\* only, tokens without a separator (the empty one and the header's "Date"
\* among them), and one with both separators.
DateTokens ==
    {Join(<<m, d, y>>, sep) : m \in Months, d \in Days, y \in Years,
                              sep \in {"/", "-"}}
    \cup {Join(<<m, y>>, sep) : m \in Months, y \in Years, sep \in {"/", "-"}}
    \cup Months \cup Years \cup {<<>>, header[1]}
    \cup {<<"3", "/", "4", "-", "2", "0", "2", "2">>}

\* Field texts that tell the places of a row apart.
Cells ==
    <<"c0", "c1", "c2", "c3", "c4", "c5", "c6", "c7", "c8", "c9", "c10",
      "c11", "c12", "c13", "c14", "c15", "c16", "c17", "c18", "c19">>

ColCounts == 5..MaxCols

\* Rows whose fields are all different.
PlainRows == {SubSeq(Cells, 1, n) : n \in ColCounts}

Places == {"US", "Arizona", "Pima", "Maricopa", "Singapore", "France"}

\* Rows of every length with every combination of the place names in the
\* first four fields and in the last one, and the empty row.
PlaceRows ==
    {<<>>} \cup
    {[p \in 1..n |-> CASE p = 1 -> a [] p = 2 -> b [] p = 3 -> c [] p = 4 -> d
                       [] p = n -> e [] OTHER -> Cells[p]] :
        n \in ColCounts, a \in Places, b \in Places, c \in Places,
        d \in Places, e \in Places}

InitFn ==
    /\ repo = {}
    /\ cases = <<>>
    /\ pc = "prompt"
    /\ choice = ""
    /\ filenames = <<>>
    /\ pos = 0
    /\ printed = {}
    /\ err = ""
    /\ before = <<>>
    /\ listed = <<>>
    /\ fetched = <<>>
    /\ clean = FALSE
    /\ changes = 0
    /\ call = NoCall
    /\ ret = Return(<<>>)

CallFormatDatestr ==
    /\ call = NoCall
    /\ \E datestr \in DateTokens :
        /\ call' = [fn |-> "format_datestr", row |-> <<>>, cols |-> 0,
                    datestr |-> datestr]
        /\ ret' = format_datestr(datestr)
    /\ UNCHANGED <<repo, cases, run, clean, changes>>

CallUpdateFormat ==
    /\ call = NoCall
    /\ \E row \in PlainRows, cols \in ColCounts :
        /\ call' = [fn |-> "update_format", row |-> row, cols |-> cols,
                    datestr |-> Split(Name_01_02_2022, ".")[1]]
        /\ ret' = update_format(row, cols, call'.datestr)
    /\ UNCHANGED <<repo, cases, run, clean, changes>>

\* The loop body of append_contents on one row of a file whose header line
\* has as many columns as the row, with an empty writer.
CallProcessRow ==
    /\ call = NoCall
    /\ \E row \in PlaceRows :
        /\ call' = [fn |-> "ProcessRow", row |-> row, cols |-> Len(row),
                    datestr |-> Split(Name_01_02_2022, ".")[1]]
        /\ ret' = ProcessRow(<<>>, row, Len(row), call'.datestr)
    /\ UNCHANGED <<repo, cases, run, clean, changes>>

NextFn ==
    \/ CallFormatDatestr
    \/ CallUpdateFormat
    \/ CallProcessRow

SpecFn == InitFn /\ [][NextFn]_vars

-----------------------------------------------------------------------------
(* Properties of the functions (checked under SpecFn)                       *)

Supported == {6, 8, 12, 14}

\* C1: for every raw row whose length cols is one of 6, 8, 12, 14 and any
\* date, update_format(row, cols, date) returns a row of exactly 15 fields.
C1_FifteenFields ==
    (call.fn = "update_format" /\ call.cols \in Supported
        /\ Len(call.row) = call.cols)
    => (ret.exc = "" /\ Len(ret.val) = 15)

\* C2: for a column count that is not one of 6, 8, 12, 14, update_format
\* fails with an error and returns no row.
C2_UnsupportedFails ==
    (call.fn = "update_format" /\ call.cols \notin Supported
        /\ Len(call.row) = call.cols)
    => ret.exc # ""

\* The field at 0-based position p of a row, for a position inside the row.
HasField(row, p) == p >= 0 /\ p <= Len(row) - 1
Field(row, p) == row[p + 1]

\* The rows the target spec {US: {Arizona: [Pima]}, Singapore: {}} accepts,
\* i being the country index of the row's layout.
Accepted(row) ==
    LET i == country_index[Len(row)]
    IN  \/ Field(row, i) = "Singapore"
        \/ /\ Field(row, i) = "US"
           /\ HasField(row, i - 1) /\ Field(row, i - 1) = "Arizona"
           /\ HasField(row, i - 2) /\ Field(row, i - 2) = "Pima"

\* C5: a data row of a supported layout is written to the output if and only
\* if its country is Singapore, or its country is US, its province field at
\* i-1 is Arizona and its county field at i-2 is Pima.
C5_WrittenIffTarget ==
    (call.fn = "ProcessRow" /\ Len(call.row) \in Supported)
    => (ret.exc = "" /\ (Len(ret.val) = 1 <=> Accepted(call.row))
                     /\ (Len(ret.val) = 0 <=> ~Accepted(call.row)))

\* Number of separators in a date token.
RECURSIVE Separators(_)
Separators(s) ==
    IF Len(s) = 0 THEN 0
    ELSE (IF Head(s) \in {"/", "-"} THEN 1 ELSE 0) + Separators(Tail(s))

\* C7: format_datestr fails, and returns no text, whenever the token holds
\* neither '/' nor '-', and whenever it has fewer than two subfields before
\* the year.
C7_MalformedFails ==
    (call.fn = "format_datestr" /\ Separators(call.datestr) < 2)
    => ret.exc # ""

\* C9: for every supported row length, every position the classifier reads
\* in the row (i, i-1, i-2) lies within 0..len(row)-1.
C9_SubscriptsInRow ==
    (call.fn = "ProcessRow" /\ Len(call.row) \in Supported)
    => \A p \in Subscripts(call.row) : HasField(call.row, p)

-----------------------------------------------------------------------------
(* Properties of the runs (checked under Spec)                              *)

\* The date of the last row of a file.
LastDate(file) == file[Len(file)][1]

\* The names of the report files that exist upstream.
RepoNames == {Upstream[f].name : f \in repo}

IsPrefix(s, t) == Len(s) <= Len(t) /\ SubSeq(t, 1, Len(s)) = s

\* The current run has got past lines 163-184, or has ended before them.
Opened == pc \in {"append", "done", "error"}

\* C3: after any sequence of runs, aborted ones included, the dates of the
\* data rows of cases.csv are in non-decreasing chronological order.
C3_Chronological ==
    \A k \in 2..(Len(cases) - 1) :
        strptime(cases[k][1]) <= strptime(cases[k + 1][1])

\* An update run that failed partway has added rows of 2022 to a file that
\* began with rows of 2021.
C3_Witness ==
    /\ choice = "2" /\ pc = "error"
    /\ Len(before) >= 2 /\ Len(cases) > Len(before)
    /\ strptime(cases[2][1]) < 20220000
    /\ Len(fetched) >= 2

\* The listed names newer than date d.
Newer(d) == {f \in RepoNames : DateKey(f) > strptime(d)}

\* The last row's date names a listed file.
Matches ==
    /\ Len(before) > 0
    /\ InList(LastDate(before) \o dotcsv, listed)

\* C4: in an update run where the date D of the last row matches D.csv, the
\* files processed are exactly those strictly after D.csv, in chronological
\* order; when there is none, nothing is fetched, the file is unchanged and
\* the run ends normally as already up to date.
C4_UpdateTakesNewer ==
    (choice = "2" /\ pc \in {"append", "done", "error"} /\ Matches)
    => LET new == Newer(LastDate(before))
       IN  /\ \A k \in 1..Len(fetched) : fetched[k] \in new
           /\ \A k \in 1..Len(fetched) : \A j \in 1..(k - 1) :
                DateKey(fetched[j]) < DateKey(fetched[k])
           /\ \A k \in 1..Len(fetched) : \A f \in new :
                DateKey(f) < DateKey(fetched[k])
                    => \E j \in 1..(k - 1) : fetched[j] = f
           /\ pc = "done" => {fetched[k] : k \in 1..Len(fetched)} = new
           /\ new = {} => /\ pc = "done"
                          /\ fetched = <<>>
                          /\ cases = before
                          /\ err = ""
                          /\ "Already up to date" \in printed

\* An update run has ended normally after fetching two newer files on top of
\* a file whose last row is of 2021.
C4_Witness ==
    /\ choice = "2" /\ pc = "done" /\ Matches
    /\ Len(fetched) >= 2
    /\ strptime(LastDate(before)) < 20220000
    /\ Cardinality(RepoNames) >= 4

\* C6: in an update run where the date of the last row names no upstream
\* file, the run ends with an error before any file is fetched and cases.csv
\* is unchanged.
C6_InconsistentFails ==
    (choice = "2" /\ Opened /\ Len(before) > 0
        /\ LastDate(before) \o dotcsv \notin RepoNames)
    => (pc = "error" /\ fetched = <<>> /\ cases = before)

\* An update run has failed in list.index on a file with data rows while
\* upstream holds files.
C6_Witness ==
    /\ choice = "2" /\ pc = "error" /\ err = "ValueError"
    /\ Len(before) >= 2 /\ Len(listed) >= 2
    /\ LastDate(before) \o dotcsv \notin RepoNames

\* C8: an update run only appends: the file before the run is a prefix of
\* the file after it, also when the run aborts partway; the header is the
\* first row and no other.
C8_AppendOnly ==
    choice = "2"
    => /\ IsPrefix(before, cases)
       /\ \A k \in 1..Len(cases) : (cases[k] = header) <=> (k = 1)

\* An update run has aborted on a transport or format error after appending
\* rows to a file with data rows.
C8_Witness ==
    /\ choice = "2" /\ pc = "error" /\ err \in {"Timeout", "KeyError"}
    /\ Len(before) >= 2 /\ Len(cases) > Len(before)

\* The normalized target rows of every upstream file, oldest file first.
RECURSIVE RowsOf(_)
RowsOf(names) ==
    IF Len(names) = 0 THEN <<>>
    ELSE LET contents == ContentOf(Head(names))
         IN  ProcessRows(<<>>, Tail(contents), Len(contents[1]),
                         Split(Head(names), ".")[1]).val
             \o RowsOf(Tail(names))

\* RepoNames as a sequence in chronological order.
RECURSIVE Chronological(_)
Chronological(names) ==
    IF names = {} THEN <<>>
    ELSE LET first == CHOOSE f \in names :
                        \A g \in names : DateKey(f) <= DateKey(g)
         IN  <<first>> \o Chronological(names \ {first})

\* C10: after a generate run followed by update runs, none of which aborts,
\* with upstream files only added at later dates, the data rows of cases.csv
\* are exactly the normalized target rows of all upstream files, each once.
C10_ExactlyOnce ==
    (clean /\ pc = "done")
    => cases = <<header>> \o RowsOf(Chronological(RepoNames))

\* An update run has ended normally and added rows after upstream gained
\* files, one of them without a target row.
C10_Witness ==
    /\ clean /\ pc = "done" /\ choice = "2"
    /\ changes >= 1
    /\ InList(Name_01_02_2022, fetched)
    /\ Len(cases) > Len(before)

=============================================================================
